---- MODULE Spec2Model ----
(***************************************************************************)
(* Gate-application engines of qibojit (src/src/qibojit/engines.py):       *)
(* NumbaEngine and CupyEngine.  The dispatchers (one_qubit_base,           *)
(* two_qubit_base, multi_qubit_base), the density-matrix adapter, the      *)
(* channel accumulator and the GPU block sizing are translated from the    *)
(* source.  The kernel library (qibojit.custom_operators), the matrix      *)
(* library (qibojit.matrices) and numpy are not part of the source tree;   *)
(* they are modelled from the design document and from their mathematical  *)
(* meaning, over exact Gaussian-integer amplitudes.                        *)
(***************************************************************************)
EXTENDS Integers, Sequences, FiniteSets, TLC

VARIABLES self, nqubits, state, calls, last, pre, applied, new_state

vars == <<self, nqubits, state, calls, last, pre, applied, new_state>>

---------------------------------------------------------------------------
(* Bounds of the model.                                                    *)

\* largest qubit count whose amplitude buffer is tracked entry by entry
MaxQubits == 2
\* largest qubit count of the dispatch-level specification (opaque buffers)
MaxDispatchQubits == 8
\* largest number of control qubits of a gate
MaxControls == 2
\* Kraus terms of a channel
MaxKraus == 2
\* channel weights are CoeffDen-ths: p_i = a_i / CoeffDen
CoeffDen == 2
\* arguments of calculate_blocks explored exhaustively
MaxNStates == 40
MaxBlockSize == 12

---------------------------------------------------------------------------
(* Program constants.                                                      *)

DEFAULT_BLOCK_SIZE == 1024
MAX_NUM_TARGETS == 7

GATE_OPS_NAMES ==
  {"X", "CNOT", "TOFFOLI", "Y", "Z", "CZ", "U1", "CU1", "SWAP", "fSim", "GeneralizedfSim"}

\* GATE_OPS.get(name, default)
GATE_OPS_get(name, default) ==
  CASE name \in {"X", "CNOT", "TOFFOLI"} -> "apply_x"
    [] name = "Y" -> "apply_y"
    [] name \in {"Z", "CZ"} -> "apply_z"
    [] name \in {"U1", "CU1"} -> "apply_z_pow"
    [] name = "SWAP" -> "apply_swap"
    [] name \in {"fSim", "GeneralizedfSim"} -> "apply_fsim"
    [] OTHER -> default

---------------------------------------------------------------------------
(* Exact complex arithmetic: a complex number is <<re, im>>.               *)

C0 == <<0, 0>>
C1 == <<1, 0>>
CI == <<0, 1>>
CM1 == <<-1, 0>>
CMI == <<0, -1>>

CAdd(a, b) == <<a[1] + b[1], a[2] + b[2]>>
CMul(a, b) == <<a[1] * b[1] - a[2] * b[2], a[1] * b[2] + a[2] * b[1]>>
CConj(a) == <<a[1], -a[2]>>
CScale(k, a) == <<k * a[1], k * a[2]>>

RECURSIVE CSum(_, _)
\* sum of f[0] .. f[n-1]
CSum(f, n) == IF n = 0 THEN C0 ELSE CAdd(CSum(f, n - 1), f[n - 1])

Bit(i, p) == (i \div (2 ^ p)) % 2

RECURSIVE SumInt(_, _)
\* sum of the integers f[1] .. f[n]
SumInt(f, n) == IF n = 0 THEN 0 ELSE SumInt(f, n - 1) + f[n]

Range(s) == {s[i] : i \in 1..Len(s)}

RECURSIVE SortedSeq(_)
\* sorted(...) of a set of distinct integers, ascending
SortedSeq(S) ==
  IF S = {} THEN <<>>
  ELSE LET x == CHOOSE y \in S : \A z \in S : y <= z
       IN <<x>> \o SortedSeq(S \ {x})

Reverse(s) == [i \in 1..Len(s) |-> s[Len(s) + 1 - i]]

---------------------------------------------------------------------------
(* Gate descriptors of the host framework (qibo).  A gate has a class name, *)
(* ordered target qubits, control qubits, a tag for its parameters and the  *)
(* branch of the class hierarchy _as_custom_matrix tests for.               *)

Gate(name, targets, controls, parameters, kind) ==
  [name |-> name, target_qubits |-> targets, control_qubits |-> controls,
   parameters |-> parameters, kind |-> kind]

NoGate == Gate("", <<>>, <<>>, "", "plain")

(* Matrices.  A matrix value names the gate matrix it was built from and    *)
(* the numpy operations applied to it since; Elems gives its entries.       *)

MatrixOf(gate, via) ==
  [name |-> gate.name, parameters |-> gate.parameters,
   ntargets |-> Len(gate.target_qubits), via |-> via, inv |-> FALSE, conj |-> FALSE]

\* np.conj(matrix)
np_conj(matrix) == [matrix EXCEPT !.conj = ~@]

\* np.linalg.inv(matrix)
np_linalg_inv(matrix) == [matrix EXCEPT !.inv = ~@]

MatX == << <<C0, C1>>, <<C1, C0>> >>
MatY == << <<C0, CMI>>, <<CI, C0>> >>
MatZ == << <<C1, C0>>, <<C0, CM1>> >>
MatPhase(ph) == << <<C1, C0>>, <<C0, ph>> >>
\* an invertible, non-unitary Kraus operator with complex entries
MatA == << <<C1, CI>>, <<C0, C1>> >>
MatAinv == << <<C1, CMI>>, <<C0, C1>> >>
MatSWAP ==
  << <<C1, C0, C0, C0>>, <<C0, C0, C1, C0>>, <<C0, C1, C0, C0>>, <<C0, C0, C0, C1>> >>
\* fSim(theta, phi) at theta = pi/2, phi = pi (tag "q") and its inverse
MatFSim(ph) ==
  << <<C1, C0, C0, C0>>, <<C0, C0, ph, C0>>, <<C0, ph, C0, C0>>, <<C0, C0, C0, CM1>> >>

Dim(M) == Len(M)

Kron(P, Q) ==
  [r \in 1..(Dim(P) * Dim(Q)) |->
    [c \in 1..(Dim(P) * Dim(Q)) |->
      CMul(P[((r - 1) \div Dim(Q)) + 1][((c - 1) \div Dim(Q)) + 1],
           Q[((r - 1) % Dim(Q)) + 1][((c - 1) % Dim(Q)) + 1])]]

MatMul(P, Q) ==
  [r \in 1..Dim(P) |->
    [c \in 1..Dim(P) |->
      CSum([j \in 0..(Dim(P) - 1) |-> CMul(P[r][j + 1], Q[j + 1][c])], Dim(P))]]

MatConj(P) == [r \in 1..Dim(P) |-> [c \in 1..Dim(P) |-> CConj(P[r][c])]]

Identity(d) == [r \in 1..d |-> [c \in 1..d |-> IF r = c THEN C1 ELSE C0]]

RECURSIVE UnitaryBase(_, _)
\* the matrix of a Unitary gate on k targets: first tensor factor P, then X, Z, X, ...
UnitaryBase(P, k) ==
  IF k = 1 THEN P ELSE Kron(UnitaryBase(P, k - 1), IF k % 2 = 0 THEN MatX ELSE MatZ)

\* the gate's matrix on its targets
BaseMatrix(name, parameters, k) ==
  CASE name \in {"X", "CNOT", "TOFFOLI"} -> MatX
    [] name = "Y" -> MatY
    [] name \in {"Z", "CZ"} -> MatZ
    [] name \in {"U1", "CU1"} -> MatPhase(CI)
    [] name = "SWAP" -> MatSWAP
    [] name \in {"fSim", "GeneralizedfSim"} -> MatFSim(CMI)
    [] OTHER -> UnitaryBase(MatA, k)

\* the matrices among which the inverse of a 2^k x 2^k gate matrix is found
InversePool(k) ==
  {UnitaryBase(MatA, k), UnitaryBase(MatAinv, k)}
    \cup (IF k = 1 THEN {MatX, MatY, MatZ, MatPhase(CI), MatPhase(CMI)} ELSE {})
    \cup (IF k = 2 THEN {MatSWAP, MatFSim(CMI), MatFSim(CI)} ELSE {})

\* the inverse of P: the matrix Q with Q P = 1
MatInv(P, k) == CHOOSE Q \in InversePool(k) : MatMul(Q, P) = Identity(Dim(P))

\* the entries of a matrix value
Elems(matrix) ==
  LET B == BaseMatrix(matrix.name, matrix.parameters, matrix.ntargets)
      M == IF matrix.inv THEN MatInv(B, matrix.ntargets) ELSE B
  IN IF matrix.conj THEN MatConj(M) ELSE M

---------------------------------------------------------------------------
(* Amplitude buffers.  A buffer has a shape and flat row-major data; a      *)
(* buffer too large to enumerate is carried untracked (its data is not      *)
(* followed, only the kernels launched on it are).                          *)

Opaque == "opaque"

RECURSIVE Product(_)
Product(s) == IF s = <<>> THEN 1 ELSE Head(s) * Product(Tail(s))

Size(st) == Product(st.shape)

\* state.ravel()
ravel(st) == [st EXCEPT !.shape = <<Size(st)>>]

\* np.reshape(state, shape)
np_reshape(st, shape) == [st EXCEPT !.shape = shape]

Log2(x) == CHOOSE p \in 0..30 : 2 ^ p = x

---------------------------------------------------------------------------
(* Kernel registry.                                                        *)

KERNELS ==
  {"apply_gate", "apply_x", "apply_y", "apply_z", "apply_z_pow",
   "apply_two_qubit_gate", "apply_fsim", "apply_swap"}

KernelEntry(name, op, multicontrol, ntargets) ==
  [name |-> name, op |-> op, multicontrol |-> multicontrol, ntargets |-> ntargets]

\* the kernels of qibojit.custom_operators.gates (CPU)
NumbaGates ==
  {KernelEntry(op \o "_kernel", op, FALSE, 0) : op \in KERNELS}
    \cup {KernelEntry("multicontrol_" \o op \o "_kernel", op, TRUE, 0) : op \in KERNELS}
    \cup {KernelEntry("apply_three_qubit_gate_kernel", "apply_multi_qubit_gate", TRUE, 3),
          KernelEntry("apply_four_qubit_gate_kernel", "apply_multi_qubit_gate", TRUE, 4),
          KernelEntry("apply_five_qubit_gate_kernel", "apply_multi_qubit_gate", TRUE, 5),
          KernelEntry("apply_multi_qubit_gate_kernel", "apply_multi_qubit_gate", TRUE, 0)}

\* self.multi_qubit_kernels.get(ntargets): the kernel's name, <<>> for None
multi_qubit_kernels_get(ntargets) ==
  CASE ntargets = 3 -> <<"apply_three_qubit_gate_kernel">>
    [] ntargets = 4 -> <<"apply_four_qubit_gate_kernel">>
    [] ntargets = 5 -> <<"apply_five_qubit_gate_kernel">>
    [] OTHER -> <<>>

\* self.gates as CupyEngine.__init__ fills it
CupyGates ==
  UNION {
    {KernelEntry(op \o "_kernel_" \o ktype, op, FALSE, 0) : op \in KERNELS}
      \cup {KernelEntry("multicontrol_" \o op \o "_kernel_" \o ktype, op, TRUE, 0) : op \in KERNELS}
      \cup {KernelEntry("collapse_state_kernel_" \o ktype, "collapse_state", FALSE, 0),
            KernelEntry("initial_state_kernel_" \o ktype, "initial_state", FALSE, 0)}
      \cup {KernelEntry("apply_multi_qubit_gate_kernel_" \o ktype \o "_" \o ToString(ntargets),
                        "apply_multi_qubit_gate", TRUE, ntargets) : ntargets \in 3..MAX_NUM_TARGETS}
    : ktype \in {"float", "double"}}

Gates(slf) == IF slf.platform = "cupy" THEN CupyGates ELSE NumbaGates

HasKernel(slf, name) == \E e \in Gates(slf) : e.name = name

KernelNamed(slf, name) == CHOOSE e \in Gates(slf) : e.name = name

---------------------------------------------------------------------------
(* What a kernel does to the buffer.                                       *)

\* one kernel launch: the kernel's name and the arguments it is called with;
\* an argument the call does not pass is <<>>
Launch(kernel, gate, qubits, nstates, m, swap_targets, tk, uk, targets, nactive, ntargets, grid) ==
  [kernel |-> kernel, gate |-> gate, qubits |-> qubits, nstates |-> nstates, m |-> m,
   swap_targets |-> swap_targets, tk |-> tk, uk |-> uk, targets |-> targets,
   nactive |-> nactive, ntargets |-> ntargets, grid |-> grid]

\* the update every kernel performs: on each index whose control bits are set and whose
\* group is executed, the matrix U acts on the target bits (tbits, first matrix index first)
ApplyOnBits(data, nbits, U, tbits, cbits, involved, threads) ==
  LET k == Len(tbits)
      free == SortedSeq((0..(nbits - 1)) \ involved)
      Row(i) == SumInt([p \in 1..k |-> Bit(i, tbits[p]) * (2 ^ (k - p))], k)
      Sub(i, j) ==
        i + SumInt([p \in 1..k |-> (Bit(j, k - p) - Bit(i, tbits[p])) * (2 ^ tbits[p])], k)
      Group(i) == SumInt([r \in 1..Len(free) |-> Bit(i, free[r]) * (2 ^ (r - 1))], Len(free))
  IN [i \in 0..((2 ^ nbits) - 1) |->
       IF (\A c \in cbits : Bit(i, c) = 1) /\ Group(i) < threads
       THEN CSum([j \in 0..((2 ^ k) - 1) |-> CMul(U[Row(i) + 1][j + 1], data[Sub(i, j)])], 2 ^ k)
       ELSE data[i]]

\* the matrix a kernel applies: fixed for the permutation and phase kernels
KernelMatrix(op, L) ==
  CASE op = "apply_x" -> MatX
    [] op = "apply_y" -> MatY
    [] op = "apply_z" -> MatZ
    [] op = "apply_swap" -> MatSWAP
    [] op = "apply_z_pow" -> MatPhase(Elems(L.gate[1])[2][2])
    [] OTHER -> Elems(L.gate[1])

\* the target bit positions of a launch, first matrix index first
TargetBits(e, L) ==
  CASE e.op \in {"apply_gate", "apply_x", "apply_y", "apply_z", "apply_z_pow"} -> <<L.m[1]>>
    [] e.op \in {"apply_two_qubit_gate", "apply_fsim", "apply_swap"} ->
         IF L.uk # <<>> THEN <<Log2(L.uk[2]), Log2(L.uk[1])>>
         ELSE IF L.swap_targets[1] THEN <<L.m[1], L.m[2]>> ELSE <<L.m[2], L.m[1]>>
    [] OTHER -> Reverse([p \in 1..Len(L.targets) |-> Log2(L.targets[p])])

\* the number of groups a launch executes
Threads(L) == IF L.grid # <<>> THEN L.grid[1] * L.grid[2] ELSE L.nstates[1]

RunKernel(slf, st, L) ==
  IF ~st.tracked THEN st
  ELSE LET e == KernelNamed(slf, L.kernel)
           tbits == TargetBits(e, L)
           involved == IF e.multicontrol THEN Range(L.qubits) ELSE Range(tbits)
       IN [st EXCEPT !.data =
             ApplyOnBits(st.data, Log2(Size(st)), KernelMatrix(e.op, L), tbits,
                         involved \ Range(tbits), involved, Threads(L))]

RECURSIVE RunLaunches(_, _, _, _)
\* the launches of one dispatcher call, in order, from the i-th on
RunLaunches(slf, st, launches, i) ==
  IF i > Len(launches) THEN st
  ELSE RunLaunches(slf, RunKernel(slf, st, launches[i]), launches, i + 1)

---------------------------------------------------------------------------
(* Execution sizing (GPU).                                                 *)

\* the block count rounded down instead of up
calculate_blocks_floor(nstates, block_size) ==
  LET nblocks == nstates \div block_size
  IN IF nstates < block_size THEN <<1, nstates>> ELSE <<nblocks, block_size>>

\* CupyEngine.calculate_blocks: <<nblocks, block_size>>
calculate_blocks(nstates, block_size) ==
  LET nblocks == (nstates + block_size - 1) \div block_size
  IN IF nstates < block_size THEN <<1, nstates>> ELSE <<nblocks, block_size>>

---------------------------------------------------------------------------
(* Dispatchers.  The geometry and the kernel a dispatcher selects do not   *)
(* depend on the buffer's contents, so each dispatcher is modelled by the  *)
(* record of its call: the arguments it received, the geometry it          *)
(* computed, whether it raised, and the kernel launch it makes (kernel     *)
(* name and arguments).  RunLaunches applies the launch to the buffer.     *)

\* kernel(...): a name the registry does not hold is None, and calling None raises
Call(slf, base, nq, targets, op, gate, qubits, ncontrols, nstates, m, swap_targets, L) ==
  [base |-> base, nqubits |-> nq, targets |-> targets, op |-> op, gate |-> gate,
   qubits |-> qubits, ncontrols |-> ncontrols, nstates |-> nstates, m |-> m,
   swap_targets |-> swap_targets,
   raised |-> ~HasKernel(slf, L.kernel),
   launches |-> IF HasKernel(slf, L.kernel) THEN <<L>> ELSE <<>>]

\* a call that raises before it selects a kernel
Raise(base, nq, targets, gate, qubits) ==
  [base |-> base, nqubits |-> nq, targets |-> targets, op |-> "", gate |-> gate,
   qubits |-> qubits, ncontrols |-> Len(qubits) - Len(targets), nstates |-> 0, m |-> <<>>,
   swap_targets |-> <<>>, raised |-> TRUE, launches |-> <<>>]

\* the target's qubit index taken for its bit position
Numba_one_qubit_base_lsb_first(slf, nq, target, kernel, gate, qubits) ==
  LET ncontrols == Len(qubits) - 1
      m == target
      nstates == 2 ^ (nq - ncontrols - 1)
  IN Call(slf, "one_qubit_base", nq, <<target>>, kernel, gate, qubits, ncontrols, nstates,
          <<m>>, <<>>,
          IF ncontrols # 0
          THEN Launch("multicontrol_" \o kernel \o "_kernel", <<gate>>, qubits, <<nstates>>,
                      <<m>>, <<>>, <<>>, <<>>, <<>>, <<>>, <<>>, <<>>)
          ELSE Launch(kernel \o "_kernel", <<gate>>, <<>>, <<nstates>>,
                      <<m>>, <<>>, <<>>, <<>>, <<>>, <<>>, <<>>, <<>>))

\* NumbaEngine.one_qubit_base
Numba_one_qubit_base(slf, nq, target, kernel, gate, qubits) ==
  LET ncontrols == Len(qubits) - 1
      m == nq - target - 1
      nstates == 2 ^ (nq - ncontrols - 1)
  IN Call(slf, "one_qubit_base", nq, <<target>>, kernel, gate, qubits, ncontrols, nstates,
          <<m>>, <<>>,
          IF ncontrols # 0
          THEN Launch("multicontrol_" \o kernel \o "_kernel", <<gate>>, qubits, <<nstates>>,
                      <<m>>, <<>>, <<>>, <<>>, <<>>, <<>>, <<>>, <<>>)
          ELSE Launch(kernel \o "_kernel", <<gate>>, <<>>, <<nstates>>,
                      <<m>>, <<>>, <<>>, <<>>, <<>>, <<>>, <<>>, <<>>))

\* the bit positions left in the order of the arguments
Numba_two_qubit_base_unordered(slf, nq, target1, target2, kernel, gate, qubits) ==
  LET ncontrols == Len(qubits) - 2
      swap_targets == target1 > target2
      m1 == nq - target1 - 1
      m2 == nq - target2 - 1
      nstates == 2 ^ (nq - 2 - ncontrols)
  IN Call(slf, "two_qubit_base", nq, <<target1, target2>>, kernel, gate, qubits, ncontrols,
          nstates, <<m1, m2>>, <<swap_targets>>,
          IF ncontrols # 0
          THEN Launch("multicontrol_" \o kernel \o "_kernel", <<gate>>, qubits, <<nstates>>,
                      <<m1, m2>>, <<swap_targets>>, <<>>, <<>>, <<>>, <<>>, <<>>, <<>>)
          ELSE Launch(kernel \o "_kernel", <<gate>>, <<>>, <<nstates>>,
                      <<m1, m2>>, <<swap_targets>>, <<>>, <<>>, <<>>, <<>>, <<>>, <<>>))

\* NumbaEngine.two_qubit_base
Numba_two_qubit_base(slf, nq, target1, target2, kernel, gate, qubits) ==
  LET ncontrols == Len(qubits) - 2
      swap_targets == target1 > target2
      m1 == IF target1 > target2 THEN nq - target1 - 1 ELSE nq - target2 - 1
      m2 == IF target1 > target2 THEN nq - target2 - 1 ELSE nq - target1 - 1
      nstates == 2 ^ (nq - 2 - ncontrols)
  IN Call(slf, "two_qubit_base", nq, <<target1, target2>>, kernel, gate, qubits, ncontrols,
          nstates, <<m1, m2>>, <<swap_targets>>,
          IF ncontrols # 0
          THEN Launch("multicontrol_" \o kernel \o "_kernel", <<gate>>, qubits, <<nstates>>,
                      <<m1, m2>>, <<swap_targets>>, <<>>, <<>>, <<>>, <<>>, <<>>, <<>>)
          ELSE Launch(kernel \o "_kernel", <<gate>>, <<>>, <<nstates>>,
                      <<m1, m2>>, <<swap_targets>>, <<>>, <<>>, <<>>, <<>>, <<>>, <<>>))

\* every arity looked up among the specialised kernels, the generic kernel never used
Numba_multi_qubit_base_no_generic(slf, nq, targets, gate, qubits) ==
  LET nstates == 2 ^ (nq - Len(qubits))
      masks == [p \in 1..Len(targets) |-> 2 ^ (nq - Reverse(targets)[p] - 1)]
      kernel == multi_qubit_kernels_get(Len(masks))
  IN IF kernel = <<>> THEN Raise("multi_qubit_base", nq, targets, gate, qubits)
     ELSE Call(slf, "multi_qubit_base", nq, targets, "", gate, qubits,
               Len(qubits) - Len(targets), nstates, <<>>, <<>>,
               Launch(kernel[1], <<gate>>, qubits, <<nstates>>, <<>>, <<>>,
                      <<>>, <<>>, masks, <<>>, <<>>, <<>>))

\* NumbaEngine.multi_qubit_base (qubits is never None when reached through apply_gate)
Numba_multi_qubit_base(slf, nq, targets, gate, qubits) ==
  LET nstates == 2 ^ (nq - Len(qubits))
      masks == [p \in 1..Len(targets) |-> 2 ^ (nq - Reverse(targets)[p] - 1)]
      kernel == IF Len(masks) > 5 THEN <<"apply_multi_qubit_gate_kernel">>
                ELSE multi_qubit_kernels_get(Len(masks))
  IN IF kernel = <<>> THEN Raise("multi_qubit_base", nq, targets, gate, qubits)
     ELSE Call(slf, "multi_qubit_base", nq, targets, "", gate, qubits,
               Len(qubits) - Len(targets), nstates, <<>>, <<>>,
               Launch(kernel[1], <<gate>>, qubits, <<nstates>>, <<>>, <<>>,
                      <<>>, <<>>, masks, <<>>, <<>>, <<>>))

\* CupyEngine.one_qubit_base
Cupy_one_qubit_base(slf, nq, target, kernel, gate, qubits) ==
  LET ncontrols == Len(qubits) - 1
      m == nq - target - 1
      tk == 2 ^ m
      nstates == 2 ^ (nq - ncontrols - 1)
      g == IF kernel \in {"apply_x", "apply_y", "apply_z"} THEN <<>> ELSE <<gate>>
      grid == calculate_blocks(nstates, DEFAULT_BLOCK_SIZE)
  IN Call(slf, "one_qubit_base", nq, <<target>>, kernel, gate, qubits, ncontrols, nstates,
          <<m>>, <<>>,
          IF ncontrols # 0
          THEN Launch("multicontrol_" \o kernel \o "_kernel_" \o slf.kernel_type, g, qubits,
                      <<>>, <<m>>, <<>>, <<tk>>, <<>>, <<>>, <<ncontrols + 1>>, <<>>, grid)
          ELSE Launch(kernel \o "_kernel_" \o slf.kernel_type, g, <<>>,
                      <<>>, <<m>>, <<>>, <<tk>>, <<>>, <<>>, <<>>, <<>>, grid))

\* CupyEngine.two_qubit_base
Cupy_two_qubit_base(slf, nq, target1, target2, kernel, gate, qubits) ==
  LET ncontrols == Len(qubits) - 2
      m1 == IF target1 > target2 THEN nq - target1 - 1 ELSE nq - target2 - 1
      m2 == IF target1 > target2 THEN nq - target2 - 1 ELSE nq - target1 - 1
      tk1 == 2 ^ m1
      tk2 == 2 ^ m2
      uk == IF target1 > target2 THEN <<tk2, tk1>> ELSE <<tk1, tk2>>
      nstates == 2 ^ (nq - 2 - ncontrols)
      g == IF kernel = "apply_swap" THEN <<>> ELSE <<gate>>
      grid == calculate_blocks(nstates, DEFAULT_BLOCK_SIZE)
  IN Call(slf, "two_qubit_base", nq, <<target1, target2>>, kernel, gate, qubits, ncontrols,
          nstates, <<m1, m2>>, <<>>,
          IF ncontrols # 0
          THEN Launch("multicontrol_" \o kernel \o "_kernel_" \o slf.kernel_type, g, qubits,
                      <<>>, <<m1, m2>>, <<>>, <<tk1, tk2>>, uk, <<>>, <<ncontrols + 2>>, <<>>, grid)
          ELSE Launch(kernel \o "_kernel_" \o slf.kernel_type, g, <<>>,
                      <<>>, <<m1, m2>>, <<>>, <<tk1, tk2>>, uk, <<>>, <<>>, <<>>, grid))

\* the group count taken from the targets alone, the controls forgotten
Cupy_multi_qubit_base_targets_only(slf, nq, targets, gate, qubits) ==
  LET ntargets == Len(targets)
      nactive == Len(qubits)
      masks == [p \in 1..ntargets |-> 2 ^ (nq - Reverse(targets)[p] - 1)]
      nstates == 2 ^ (nq - ntargets)
      grid == calculate_blocks(nstates, DEFAULT_BLOCK_SIZE)
  IN IF ntargets > MAX_NUM_TARGETS
     THEN Raise("multi_qubit_base", nq, targets, gate, qubits)
     ELSE Call(slf, "multi_qubit_base", nq, targets, "", gate, qubits, nactive - ntargets,
               nstates, <<>>, <<>>,
               Launch("apply_multi_qubit_gate_kernel_" \o slf.kernel_type \o "_"
                        \o ToString(ntargets),
                      <<gate>>, qubits, <<>>, <<>>, <<>>, <<>>, <<>>, masks, <<nactive>>,
                      <<ntargets>>, grid))

\* CupyEngine.multi_qubit_base
Cupy_multi_qubit_base(slf, nq, targets, gate, qubits) ==
  LET ntargets == Len(targets)
      nactive == Len(qubits)
      masks == [p \in 1..ntargets |-> 2 ^ (nq - Reverse(targets)[p] - 1)]
      nstates == 2 ^ (nq - nactive)
      grid == calculate_blocks(nstates, DEFAULT_BLOCK_SIZE)
  IN IF ntargets > MAX_NUM_TARGETS
     THEN Raise("multi_qubit_base", nq, targets, gate, qubits)
     ELSE Call(slf, "multi_qubit_base", nq, targets, "", gate, qubits, nactive - ntargets,
               nstates, <<>>, <<>>,
               Launch("apply_multi_qubit_gate_kernel_" \o slf.kernel_type \o "_"
                        \o ToString(ntargets),
                      <<gate>>, qubits, <<>>, <<>>, <<>>, <<>>, <<>>, masks, <<nactive>>,
                      <<ntargets>>, grid))

\* method resolution: CupyEngine overrides the three dispatchers
one_qubit_base(slf, nq, target, kernel, gate, qubits) ==
  IF slf.platform = "cupy" THEN Cupy_one_qubit_base(slf, nq, target, kernel, gate, qubits)
  ELSE Numba_one_qubit_base(slf, nq, target, kernel, gate, qubits)

two_qubit_base(slf, nq, target1, target2, kernel, gate, qubits) ==
  IF slf.platform = "cupy" THEN Cupy_two_qubit_base(slf, nq, target1, target2, kernel, gate, qubits)
  ELSE Numba_two_qubit_base(slf, nq, target1, target2, kernel, gate, qubits)

multi_qubit_base(slf, nq, targets, gate, qubits) ==
  IF slf.platform = "cupy" THEN Cupy_multi_qubit_base(slf, nq, targets, gate, qubits)
  ELSE Numba_multi_qubit_base(slf, nq, targets, gate, qubits)

---------------------------------------------------------------------------
(* Engine methods.  A method is the sequence of steps it takes on the      *)
(* buffer: dispatcher calls, and for the channel accumulator the weighted  *)
(* additions to new_state in between.  Execute runs the steps in order     *)
(* and stops at the first call that raises.                                *)

\* NumbaEngine._create_qubits_tensor (CupyEngine's override only moves it to the device)
_create_qubits_tensor(gate, nq) ==
  SortedSeq({nq - gate.control_qubits[i] - 1 : i \in 1..Len(gate.control_qubits)}
              \cup {nq - gate.target_qubits[i] - 1 : i \in 1..Len(gate.target_qubits)})

\* NumpyEngine.asmatrix(gate): the gate's matrix
asmatrix(gate) == MatrixOf(gate, "asmatrix")

\* NumbaEngine._as_custom_matrix, and CupyEngine's override (same matrix, moved to the device)
_as_custom_matrix(slf, gate) ==
  IF gate.kind = "parametrized" THEN MatrixOf(gate, "custom_matrices")
  ELSE IF gate.kind = "special" THEN MatrixOf(gate, "asmatrix_special")
  ELSE MatrixOf(gate, "custom_matrices")

Shift(s, d) == [i \in 1..Len(s) |-> s[i] + d]

CallStep(c) == [kind |-> "call", call |-> <<c>>, coeff |-> 0]

AccumulateStep(coeff) == [kind |-> "accumulate", call |-> <<>>, coeff |-> coeff]

\* the dispatcher calls of NumbaEngine.apply_gate
apply_gate_calls(slf, gate, nq) ==
  LET matrix == _as_custom_matrix(slf, gate)
      qubits == _create_qubits_tensor(gate, nq)
      targets == gate.target_qubits
  IN IF Len(targets) = 1
     THEN <<one_qubit_base(slf, nq, targets[1], GATE_OPS_get(gate.name, "apply_gate"),
                           matrix, qubits)>>
     ELSE IF Len(targets) = 2
     THEN <<two_qubit_base(slf, nq, targets[1], targets[2],
                           GATE_OPS_get(gate.name, "apply_two_qubit_gate"), matrix, qubits)>>
     ELSE <<multi_qubit_base(slf, nq, targets, matrix, qubits)>>

\* the specialised kernel used on the bra side as well
_apply_ygate_density_matrix_calls_apply_y_twice(slf, gate, nq) ==
  LET matrix == _as_custom_matrix(slf, gate)
      qubits == _create_qubits_tensor(gate, nq)
      qubits_dm == Shift(qubits, nq)
      targets == gate.target_qubits
      targets_dm == Shift(targets, nq)
  IN <<one_qubit_base(slf, 2 * nq, targets[1], "apply_y", matrix, qubits_dm),
       one_qubit_base(slf, 2 * nq, targets_dm[1], "apply_y", np_conj(matrix), qubits)>>

\* the dispatcher calls of NumbaEngine._apply_ygate_density_matrix
_apply_ygate_density_matrix_calls(slf, gate, nq) ==
  LET matrix == _as_custom_matrix(slf, gate)
      qubits == _create_qubits_tensor(gate, nq)
      qubits_dm == Shift(qubits, nq)
      targets == gate.target_qubits
      targets_dm == Shift(targets, nq)
  IN <<one_qubit_base(slf, 2 * nq, targets[1], "apply_y", matrix, qubits_dm),
       one_qubit_base(slf, 2 * nq, targets_dm[1], "apply_gate", np_conj(matrix), qubits)>>

\* the shifted target indices passed by the first call, the original ones by the second
apply_gate_density_matrix_calls_shifted_first(slf, gate, nq, inverse) ==
  LET matrix == IF inverse THEN np_linalg_inv(asmatrix(gate)) ELSE _as_custom_matrix(slf, gate)
      qubits == _create_qubits_tensor(gate, nq)
      qubits_dm == Shift(qubits, nq)
      targets == gate.target_qubits
      targets_dm == Shift(targets, nq)
      op1 == GATE_OPS_get(gate.name, "apply_gate")
      op2 == GATE_OPS_get(gate.name, "apply_two_qubit_gate")
  IN IF gate.name = "Y" THEN _apply_ygate_density_matrix_calls(slf, gate, nq)
     ELSE IF Len(targets) = 1
     THEN <<one_qubit_base(slf, 2 * nq, targets_dm[1], op1, matrix, qubits),
            one_qubit_base(slf, 2 * nq, targets[1], op1, np_conj(matrix), qubits_dm)>>
     ELSE IF Len(targets) = 2
     THEN <<two_qubit_base(slf, 2 * nq, targets_dm[1], targets_dm[2], op2, matrix, qubits),
            two_qubit_base(slf, 2 * nq, targets[1], targets[2], op2, np_conj(matrix),
                           qubits_dm)>>
     ELSE <<multi_qubit_base(slf, 2 * nq, targets_dm, matrix, qubits),
            multi_qubit_base(slf, 2 * nq, targets, np_conj(matrix), qubits_dm)>>

\* the inverse mode ignored: the gate's own matrix applied again
apply_gate_density_matrix_calls_no_inverse(slf, gate, nq, inverse) ==
  LET matrix == _as_custom_matrix(slf, gate)
      qubits == _create_qubits_tensor(gate, nq)
      qubits_dm == Shift(qubits, nq)
      targets == gate.target_qubits
      targets_dm == Shift(targets, nq)
      op1 == GATE_OPS_get(gate.name, "apply_gate")
      op2 == GATE_OPS_get(gate.name, "apply_two_qubit_gate")
  IN IF gate.name = "Y" THEN _apply_ygate_density_matrix_calls(slf, gate, nq)
     ELSE IF Len(targets) = 1
     THEN <<one_qubit_base(slf, 2 * nq, targets[1], op1, matrix, qubits_dm),
            one_qubit_base(slf, 2 * nq, targets_dm[1], op1, np_conj(matrix), qubits)>>
     ELSE IF Len(targets) = 2
     THEN <<two_qubit_base(slf, 2 * nq, targets[1], targets[2], op2, matrix, qubits_dm),
            two_qubit_base(slf, 2 * nq, targets_dm[1], targets_dm[2], op2, np_conj(matrix),
                           qubits)>>
     ELSE <<multi_qubit_base(slf, 2 * nq, targets, matrix, qubits_dm),
            multi_qubit_base(slf, 2 * nq, targets_dm, np_conj(matrix), qubits)>>

\* the dispatcher calls of NumbaEngine.apply_gate_density_matrix
apply_gate_density_matrix_calls(slf, gate, nq, inverse) ==
  LET matrix == IF inverse THEN np_linalg_inv(asmatrix(gate)) ELSE _as_custom_matrix(slf, gate)
      qubits == _create_qubits_tensor(gate, nq)
      qubits_dm == Shift(qubits, nq)
      targets == gate.target_qubits
      targets_dm == Shift(targets, nq)
      op1 == GATE_OPS_get(gate.name, "apply_gate")
      op2 == GATE_OPS_get(gate.name, "apply_two_qubit_gate")
  IN IF gate.name = "Y" THEN _apply_ygate_density_matrix_calls(slf, gate, nq)
     ELSE IF Len(targets) = 1
     THEN <<one_qubit_base(slf, 2 * nq, targets[1], op1, matrix, qubits_dm),
            one_qubit_base(slf, 2 * nq, targets_dm[1], op1, np_conj(matrix), qubits)>>
     ELSE IF Len(targets) = 2
     THEN <<two_qubit_base(slf, 2 * nq, targets[1], targets[2], op2, matrix, qubits_dm),
            two_qubit_base(slf, 2 * nq, targets_dm[1], targets_dm[2], op2, np_conj(matrix),
                           qubits)>>
     ELSE <<multi_qubit_base(slf, 2 * nq, targets, matrix, qubits_dm),
            multi_qubit_base(slf, 2 * nq, targets_dm, np_conj(matrix), qubits)>>

(* Channels.  A channel has ordered weights and gates; a weight is         *)
(* coefficients[i] / CoeffDen.  The accumulated new_state is kept as       *)
(* numerators over the denominator CoeffDen.                               *)

Channel(coefficients, gates) == [coefficients |-> coefficients, gates |-> gates]

NoChannel == Channel(<<>>, <<>>)

\* channel.coefficient_sum, as a numerator over CoeffDen
coefficient_sum(channel) == SumInt(channel.coefficients, Len(channel.coefficients))

\* k * state
Scaled(k, st) ==
  IF st.tracked THEN [st EXCEPT !.data = [i \in DOMAIN st.data |-> CScale(k, st.data[i])]] ELSE st

\* acc + k * state
Accumulate(acc, k, st) ==
  IF st.tracked
  THEN [acc EXCEPT !.data = [i \in DOMAIN acc.data |-> CAdd(acc.data[i], CScale(k, st.data[i]))]]
  ELSE acc

Steps(cs) == [i \in 1..Len(cs) |-> CallStep(cs[i])]

\* the loop body without its last statement: the state is not reset
loop_body_no_reset(slf, coeff, gate, nq) ==
  Steps(apply_gate_density_matrix_calls(slf, gate, nq, FALSE)) \o <<AccumulateStep(coeff)>>

\* one iteration of the loop of NumbaEngine.apply_channel_density_matrix
loop_body(slf, coeff, gate, nq) ==
  Steps(apply_gate_density_matrix_calls(slf, gate, nq, FALSE))
    \o <<AccumulateStep(coeff)>>
    \o Steps(apply_gate_density_matrix_calls(slf, gate, nq, TRUE))

RECURSIVE apply_channel_density_matrix_steps(_, _, _, _)
\* the loop of NumbaEngine.apply_channel_density_matrix from its i-th (coeff, gate) pair on
apply_channel_density_matrix_steps(slf, channel, nq, i) ==
  IF i > Len(channel.gates) \/ i > Len(channel.coefficients) THEN <<>>
  ELSE loop_body(slf, channel.coefficients[i], channel.gates[i], nq)
         \o apply_channel_density_matrix_steps(slf, channel, nq, i + 1)

RECURSIVE Execute(_, _, _, _, _, _)
\* runs steps[i..] on the flat buffer st; acc is new_state, cs the calls made so far
Execute(slf, steps, i, st, acc, cs) ==
  IF i > Len(steps) THEN [state |-> st, new_state |-> acc, calls |-> cs, raised |-> FALSE]
  ELSE IF steps[i].kind = "accumulate"
  THEN Execute(slf, steps, i + 1, st, Accumulate(acc, steps[i].coeff, st), cs)
  ELSE IF steps[i].call[1].raised
  THEN [state |-> st, new_state |-> acc, calls |-> Append(cs, steps[i].call[1]), raised |-> TRUE]
  ELSE Execute(slf, steps, i + 1, RunLaunches(slf, st, steps[i].call[1].launches, 1), acc,
               Append(cs, steps[i].call[1]))

NoResult == [shape |-> <<>>, tracked |-> FALSE, data |-> Opaque]

\* NumbaEngine.apply_gate
apply_gate(slf, gate, st, nq) ==
  Execute(slf, Steps(apply_gate_calls(slf, gate, nq)), 1, st, NoResult, <<>>)

\* NumbaEngine.apply_gate_density_matrix: on state.ravel(), reshaped on return
apply_gate_density_matrix(slf, gate, st, nq, inverse) ==
  Execute(slf, Steps(apply_gate_density_matrix_calls(slf, gate, nq, inverse)), 1, ravel(st),
          NoResult, <<>>)

\* NumbaEngine.apply_channel_density_matrix
apply_channel_density_matrix(slf, channel, st, nq) ==
  Execute(slf, apply_channel_density_matrix_steps(slf, channel, nq, 1), 1, ravel(st),
          Scaled(CoeffDen - coefficient_sum(channel), st), <<>>)

\* zero_state(nqubits): the buffer of 2^n amplitudes, 1 at index 0
zero_state(nq, tracked) ==
  [shape |-> <<2 ^ nq>>, tracked |-> tracked,
   data |-> IF tracked THEN [i \in 0..((2 ^ nq) - 1) |-> IF i = 0 THEN C1 ELSE C0] ELSE Opaque]

\* zero_density_matrix(nqubits): 2^n x 2^n, 1 at [0, 0]
zero_density_matrix(nq, tracked) ==
  [shape |-> <<2 ^ nq, 2 ^ nq>>, tracked |-> tracked,
   data |-> IF tracked THEN [i \in 0..((2 ^ (2 * nq)) - 1) |-> IF i = 0 THEN C1 ELSE C0]
            ELSE Opaque]

---------------------------------------------------------------------------
(* The gates and channels the caller applies.                              *)

\* k consecutive qubits from q on, ascending
Run(q, k) == [i \in 1..k |-> q + i - 1]

\* ordered target tuples on n qubits: every qubit, every ordered pair, and for three or
\* more targets every run of consecutive qubits in ascending and in descending order
TargetSeqs(n) ==
  {<<t>> : t \in 0..(n - 1)}
    \cup {<<p[1], p[2]>> : p \in {q \in (0..(n - 1)) \X (0..(n - 1)) : q[1] # q[2]}}
    \cup UNION {UNION {{Run(q, k), Reverse(Run(q, k))} : q \in 0..(n - k)} : k \in 3..n}

\* control tuples (sorted): up to MaxControls neighbouring qubits among those left
ControlSeqs(n, targets) ==
  LET rest == SortedSeq((0..(n - 1)) \ Range(targets))
  IN {<<>>} \cup UNION {{SubSeq(rest, a, a + c - 1) : a \in 1..(Len(rest) - c + 1)} :
                         c \in 1..MaxControls}

\* the gate classes with k targets and c controls
GateClasses(k, c) ==
  CASE k = 1 /\ c = 0 ->
         {<<"X", "plain">>, <<"Y", "plain">>, <<"Z", "plain">>, <<"U1", "parametrized">>,
          <<"Unitary", "parametrized">>}
    [] k = 1 /\ c = 1 ->
         {<<"CNOT", "plain">>, <<"Y", "plain">>, <<"CZ", "plain">>, <<"CU1", "parametrized">>,
          <<"Unitary", "parametrized">>}
    [] k = 1 /\ c = 2 -> {<<"TOFFOLI", "plain">>, <<"Unitary", "parametrized">>}
    [] k = 2 /\ c = 0 ->
         {<<"SWAP", "plain">>, <<"fSim", "parametrized">>, <<"Unitary", "parametrized">>,
          <<"FusedGate", "special">>}
    [] k = 2 /\ c > 0 -> {<<"SWAP", "plain">>, <<"Unitary", "parametrized">>}
    [] OTHER -> {<<"Unitary", "parametrized">>}

GatesOn(n) ==
  UNION {UNION {{Gate(cl[1], targets, controls, "", cl[2]) :
                   cl \in GateClasses(Len(targets), Len(controls))} :
                controls \in ControlSeqs(n, targets)} :
         targets \in TargetSeqs(n)}

\* the Kraus operators a channel draws from, in the order it lists them
KrausNames == <<"X", "Y", "Z", "Unitary">>

\* the weight vectors of a channel with len Kraus operators: numerators a_i of
\* p_i = a_i / CoeffDen with sum at most CoeffDen, either all positive or all but one zero
Weights(len) ==
  {a \in [1..len -> 0..CoeffDen] :
     /\ SumInt(a, len) <= CoeffDen
     /\ \/ \A i \in 1..len : a[i] > 0
        \/ Cardinality({i \in 1..len : a[i] > 0}) = 1
        \/ len = 1}

\* noise channels on one qubit: up to MaxKraus distinct Kraus operators among X, Y, Z and
\* a non-unitary one
ChannelsOn(n) ==
  UNION {{Channel(coeffs, [i \in 1..Cardinality(S) |->
                             Gate(KrausNames[SortedSeq(S)[i]], <<q>>, <<>>, "",
                                  IF KrausNames[SortedSeq(S)[i]] = "Unitary"
                                  THEN "parametrized" ELSE "plain")]) :
            coeffs \in Weights(Cardinality(S))} :
         S \in {T \in SUBSET (1..Len(KrausNames)) : Cardinality(T) \in 1..MaxKraus},
         q \in 0..(n - 1)}

\* a buffer the caller filled: pairwise distinct amplitudes, none real
Prepared(shape) ==
  [shape |-> shape, tracked |-> TRUE,
   data |-> [i \in 0..(Product(shape) - 1) |-> <<i + 1, 2 * i - 3>>]]

Engines ==
  {[platform |-> "numba", kernel_type |-> "double"],
   [platform |-> "cupy", kernel_type |-> "double"],
   [platform |-> "cupy", kernel_type |-> "float"]}

IsVector(st) == Len(st.shape) = 1
IsMatrix(st) == Len(st.shape) = 2

Op(name, gate, inverse, channel, raised) ==
  [op |-> name, gate |-> gate, inverse |-> inverse, channel |-> channel, raised |-> raised]

---------------------------------------------------------------------------
(* State machine.  self: the engine; nqubits and state: the circuit's      *)
(* qubit count and the caller's buffer; calls: the dispatcher calls of the *)
(* last method; last: the last method and its arguments; pre: the buffer   *)
(* before the last forward application; applied: whether the buffer has    *)
(* been operated on; new_state: what the channel accumulator returned.     *)

Fresh(tracked) ==
  /\ calls = <<>>
  /\ last = Op("create", NoGate, FALSE, NoChannel, FALSE)
  /\ pre = state
  /\ applied = FALSE
  /\ new_state = NoResult

\* tracked buffers of up to MaxQubits qubits: zero states and caller-filled buffers
Init ==
  /\ self \in Engines
  /\ nqubits \in 1..MaxQubits
  /\ state \in {zero_state(nqubits, TRUE), zero_density_matrix(nqubits, TRUE),
                Prepared(<<2 ^ nqubits>>), Prepared(<<2 ^ nqubits, 2 ^ nqubits>>)}
  /\ Fresh(TRUE)

\* untracked buffers of up to MaxDispatchQubits qubits
InitDispatch ==
  /\ self \in Engines
  /\ nqubits \in 1..MaxDispatchQubits
  /\ state \in {zero_state(nqubits, FALSE), zero_density_matrix(nqubits, FALSE)}
  /\ Fresh(FALSE)

\* zero_state(nqubits)
ZeroState ==
  /\ state' = zero_state(nqubits, state.tracked)
  /\ calls' = <<>>
  /\ last' = Op("create", NoGate, FALSE, NoChannel, FALSE)
  /\ pre' = state'
  /\ applied' = FALSE
  /\ new_state' = NoResult
  /\ UNCHANGED <<self, nqubits>>

\* zero_density_matrix(nqubits)
ZeroDensityMatrix ==
  /\ state' = zero_density_matrix(nqubits, state.tracked)
  /\ calls' = <<>>
  /\ last' = Op("create", NoGate, FALSE, NoChannel, FALSE)
  /\ pre' = state'
  /\ applied' = FALSE
  /\ new_state' = NoResult
  /\ UNCHANGED <<self, nqubits>>

\* apply_gate(gate, state, nqubits) on a state vector
ApplyGate(gate) ==
  /\ ~applied
  /\ IsVector(state)
  /\ \E r \in {apply_gate(self, gate, state, nqubits)} :
        /\ state' = r.state
        /\ calls' = r.calls
        /\ last' = Op("apply_gate", gate, FALSE, NoChannel, r.raised)
  /\ pre' = state
  /\ applied' = TRUE
  /\ UNCHANGED <<self, nqubits, new_state>>

\* apply_gate_density_matrix(gate, state, nqubits)
ApplyGateDensityMatrix(gate) ==
  /\ ~applied
  /\ IsMatrix(state)
  /\ \E r \in {apply_gate_density_matrix(self, gate, state, nqubits, FALSE)} :
        /\ state' = np_reshape(r.state, state.shape)
        /\ calls' = r.calls
        /\ last' = Op("apply_gate_density_matrix", gate, FALSE, NoChannel, r.raised)
  /\ pre' = state
  /\ applied' = TRUE
  /\ UNCHANGED <<self, nqubits, new_state>>

\* apply_gate_density_matrix(gate, state, nqubits, inverse=True), undoing the application
\* of the same gate that came just before
UndoGateDensityMatrix ==
  /\ last.op = "apply_gate_density_matrix"
  /\ ~last.inverse
  /\ ~last.raised
  /\ \E r \in {apply_gate_density_matrix(self, last.gate, state, nqubits, TRUE)} :
        /\ state' = np_reshape(r.state, state.shape)
        /\ calls' = r.calls
        /\ last' = Op("apply_gate_density_matrix", last.gate, TRUE, NoChannel, r.raised)
  /\ UNCHANGED <<self, nqubits, pre, applied, new_state>>

\* apply_channel_density_matrix(channel, state, nqubits)
ApplyChannelDensityMatrix(channel) ==
  /\ ~applied
  /\ IsMatrix(state)
  /\ \E r \in {apply_channel_density_matrix(self, channel, state, nqubits)} :
        /\ state' = np_reshape(r.state, state.shape)
        /\ calls' = r.calls
        /\ new_state' = r.new_state
        /\ last' = Op("apply_channel_density_matrix", NoGate, FALSE, channel, r.raised)
  /\ pre' = state
  /\ applied' = TRUE
  /\ UNCHANGED <<self, nqubits>>

\* the caller's choice of gate or channel for a buffer not yet operated on
ApplyGateAny == ~applied /\ IsVector(state) /\ \E gate \in GatesOn(nqubits) : ApplyGate(gate)

ApplyGateDensityMatrixAny ==
  ~applied /\ IsMatrix(state) /\ \E gate \in GatesOn(nqubits) : ApplyGateDensityMatrix(gate)

ApplyChannelDensityMatrixAny ==
  ~applied /\ IsMatrix(state)
    /\ \E channel \in ChannelsOn(nqubits) : ApplyChannelDensityMatrix(channel)

Next ==
  \/ ZeroState
  \/ ZeroDensityMatrix
  \/ ApplyGateAny
  \/ ApplyGateDensityMatrixAny
  \/ UndoGateDensityMatrix
  \/ ApplyChannelDensityMatrixAny

Spec == Init /\ [][Next]_vars

SpecDispatch == InitDispatch /\ [][Next]_vars

(* calculate_blocks on its own: the GPU engine asked for a launch geometry. *)

\* group counts: every count up to MaxNStates, and the two the specification quotes
BlockNStates == (1..MaxNStates) \cup {500, 3000}

\* block sizes: every size up to MaxBlockSize, and the default
BlockSizes == (1..MaxBlockSize) \cup {DEFAULT_BLOCK_SIZE}

BlocksCall(nstates, block_size, result) ==
  [base |-> "calculate_blocks", nstates |-> nstates, block_size |-> block_size,
   result |-> result]

InitBlocks ==
  /\ self \in {e \in Engines : e.platform = "cupy"}
  /\ nqubits = 1
  /\ state = zero_state(nqubits, FALSE)
  /\ Fresh(FALSE)

\* self.calculate_blocks(nstates, block_size)
CalculateBlocks ==
  /\ \E nstates \in BlockNStates, block_size \in BlockSizes :
        calls' = <<BlocksCall(nstates, block_size, calculate_blocks(nstates, block_size))>>
  /\ last' = Op("calculate_blocks", NoGate, FALSE, NoChannel, FALSE)
  /\ UNCHANGED <<self, nqubits, state, pre, applied, new_state>>

NextBlocks == CalculateBlocks

SpecBlocks == InitBlocks /\ [][NextBlocks]_vars

---------------------------------------------------------------------------
(* Properties.                                                             *)

\* the gate of the last apply_gate / apply_gate_density_matrix
LastGateOp == last.op \in {"apply_gate", "apply_gate_density_matrix"}

\* the registry entry of the kernel a call launched
Launched(call) == KernelNamed(self, call.launches[1].kernel)

\* the matrix apply_gate_density_matrix hands to the ket side
KetMatrix ==
  IF last.inverse THEN np_linalg_inv(asmatrix(last.gate)) ELSE _as_custom_matrix(self, last.gate)

\* C1 (as stated): for a gate other than Y, apply_gate_density_matrix makes exactly two
\* dispatcher calls with qubit count 2n, the first with the target indices shifted by n
\* and the unmodified matrix, the second with the original target indices and the
\* conjugated matrix.
C1_ShiftedTargetsFirst ==
  (last.op = "apply_gate_density_matrix" /\ last.gate.name # "Y") =>
    /\ Len(calls) = 2
    /\ \A i \in 1..Len(calls) : calls[i].nqubits = 2 * nqubits
    /\ calls[1].targets = Shift(last.gate.target_qubits, nqubits)
    /\ calls[1].gate = KetMatrix
    /\ calls[2].targets = last.gate.target_qubits
    /\ calls[2].gate = np_conj(KetMatrix)

\* C1 (amended): for a gate other than Y, apply_gate_density_matrix dispatches on the
\* flattened buffer with qubit count 2n; the first call passes the original target
\* indices, the matrix un-conjugated and the qubits tensor shifted by n, the second call
\* the target indices shifted by n, the conjugated matrix and the unshifted qubits
\* tensor; there are exactly two calls unless the first one raises (GPU engine, more
\* than MAX_NUM_TARGETS targets), and then it is the only one.
C1_OriginalTargetsFirst ==
  (last.op = "apply_gate_density_matrix" /\ last.gate.name # "Y") =>
    /\ state.shape = pre.shape
    /\ \A i \in 1..Len(calls) : calls[i].nqubits = 2 * nqubits
    /\ Len(calls) >= 1
    /\ calls[1].targets = last.gate.target_qubits
    /\ calls[1].gate = KetMatrix
    /\ calls[1].qubits = Shift(_create_qubits_tensor(last.gate, nqubits), nqubits)
    /\ calls[1].raised <=>
         (self.platform = "cupy" /\ Len(last.gate.target_qubits) > MAX_NUM_TARGETS)
    /\ IF calls[1].raised THEN Len(calls) = 1 /\ last.raised
       ELSE /\ Len(calls) = 2
            /\ calls[2].base = calls[1].base
            /\ calls[2].targets = Shift(last.gate.target_qubits, nqubits)
            /\ calls[2].gate = np_conj(KetMatrix)
            /\ calls[2].qubits = _create_qubits_tensor(last.gate, nqubits)
            /\ ~calls[2].raised

\* a two-target gate other than Y went through both calls, in inverse mode
C1_Witness ==
  /\ last.op = "apply_gate_density_matrix"
  /\ last.inverse
  /\ last.gate.name = "fSim"
  /\ nqubits = 3
  /\ Len(calls) = 2
  /\ calls[1].targets = <<2, 0>>
  /\ calls[2].targets = <<5, 3>>
  /\ calls[1].gate.inv /\ ~calls[1].gate.conj /\ calls[2].gate.conj

\* C2 (as stated): on every engine a dispatcher call with more than 7 targets raises
\* before a kernel is selected or launched, and the buffer is left as it was.
C2_RejectedEverywhere ==
  \A i \in 1..Len(calls) :
    (LastGateOp /\ Len(calls[i].targets) > MAX_NUM_TARGETS) =>
      calls[i].raised /\ calls[i].launches = <<>> /\ last.raised /\ state = pre

\* C2 (amended): only the GPU engine rejects more than 7 targets: its call raises
\* before any kernel is selected, nothing is launched and it is the method's last call;
\* the CPU engine never rejects an arity: beyond 5 targets (so beyond 7 too) it launches
\* the generic apply_multi_qubit_gate_kernel.
C2_RejectedOnGpuOnly ==
  \A i \in 1..Len(calls) :
    (LastGateOp /\ Len(calls[i].targets) > MAX_NUM_TARGETS) =>
      IF self.platform = "cupy"
      THEN /\ calls[i].raised
           /\ calls[i].launches = <<>>
           /\ i = Len(calls)
           /\ last.raised
           /\ state = pre
      ELSE /\ ~calls[i].raised
           /\ Len(calls[i].launches) = 1
           /\ calls[i].launches[1].kernel = "apply_multi_qubit_gate_kernel"
           /\ calls[i].nstates = 2 ^ (calls[i].nqubits - Len(calls[i].qubits))

\* the GPU engine refused a gate on more than 7 targets of a density matrix
C2_Witness ==
  /\ self.platform = "cupy"
  /\ last.op = "apply_gate_density_matrix"
  /\ Len(last.gate.target_qubits) > MAX_NUM_TARGETS
  /\ last.raised
  /\ Len(calls) = 1
  /\ calls[1].launches = <<>>

\* ceil(a / b), by its defining inequalities
CeilDiv(a, b) == CHOOSE q \in 0..a : q * b >= a /\ (q - 1) * b < a

C4_ThreadsEqualNStates ==
  \A i \in 1..Len(calls) :
    calls[i].base = "calculate_blocks" =>
      calls[i].result[1] * calls[i].result[2] = calls[i].nstates

\* what apply_gate_density_matrix returns for gate on rho
DensityMatrixAfter(gate, rho) ==
  np_reshape(apply_gate_density_matrix(self, gate, rho, nqubits, FALSE).state, rho.shape)

\* the numerator over CoeffDen of entry i of (1 - sum p) rho + sum_k p_k apply(A_k, rho)
MixtureEntry(channel, rho, i) ==
  CAdd(CScale(CoeffDen - coefficient_sum(channel), rho.data[i]),
       CSum([k \in 0..(Len(channel.gates) - 1) |->
               CScale(channel.coefficients[k + 1],
                      DensityMatrixAfter(channel.gates[k + 1], rho).data[i])],
            Len(channel.gates)))

RECURSIVE ForwardInverseCalls(_, _)
\* the calls of forward application then inverse application of each gate from the
\* i-th on, in order
ForwardInverseCalls(channel, i) ==
  IF i > Len(channel.gates) THEN <<>>
  ELSE apply_gate_density_matrix_calls(self, channel.gates[i], nqubits, FALSE)
         \o apply_gate_density_matrix_calls(self, channel.gates[i], nqubits, TRUE)
         \o ForwardInverseCalls(channel, i + 1)

\* C5: apply_channel_density_matrix takes the (weight, gate) pairs in order, each as
\* forward application, accumulation, inverse application; the working buffer is the
\* original rho again at return, and the result is (1 - sum p_i) rho + sum_i p_i
\* apply(A_i, rho) with every term computed from the original rho; one Kraus operator
\* of weight 1 gives what apply_gate_density_matrix gives for that gate.
C5_ChannelAccumulates ==
  last.op = "apply_channel_density_matrix" =>
    /\ ~last.raised
    /\ calls = ForwardInverseCalls(last.channel, 1)
    /\ state = pre
    /\ new_state.shape = pre.shape
    /\ \A i \in DOMAIN pre.data : new_state.data[i] = MixtureEntry(last.channel, pre, i)
    /\ (Len(last.channel.gates) = 1 /\ last.channel.coefficients[1] = CoeffDen) =>
         new_state.data = Scaled(CoeffDen, DensityMatrixAfter(last.channel.gates[1], pre)).data

\* a channel of two Kraus operators, one of them not unitary, both with positive
\* weight, returned a mixture that is not a multiple of rho
C5_Witness ==
  /\ last.op = "apply_channel_density_matrix"
  /\ Len(last.channel.gates) = 2
  /\ last.channel.gates[1].name = "Y"
  /\ last.channel.gates[2].name = "Unitary"
  /\ \A k \in 1..2 : last.channel.coefficients[k] > 0
  /\ pre = Prepared(<<2 ^ nqubits, 2 ^ nqubits>>)
  /\ state = pre
  /\ new_state.data # Scaled(CoeffDen, pre).data
  /\ Len(calls) = 8

\* C6: apply_gate_density_matrix(U, rho, n) followed by
\* apply_gate_density_matrix(U, ., n, inverse=True) gives back rho, for every gate
\* (Y, controlled gates and the gates GATE_OPS routes to specialised kernels included).
C6_InverseRestores ==
  (last.op = "apply_gate_density_matrix" /\ last.inverse /\ state.tracked) =>
    /\ ~last.raised
    /\ state = pre

\* a non-unitary gate changed a caller-filled density matrix and its inverse-mode
\* application brought it back
C6_Witness ==
  /\ last.op = "apply_gate_density_matrix"
  /\ last.inverse
  /\ last.gate.name = "Unitary"
  /\ Len(last.gate.control_qubits) = 1
  /\ pre = Prepared(<<2 ^ nqubits, 2 ^ nqubits>>)
  /\ DensityMatrixAfter(last.gate, pre) # pre
  /\ state = pre

\* C7: a dispatcher call with k <= 7 targets and c controls on n qubits receives a
\* qubits tensor of length c + k and computes nstates = 2^(n - c - k).
C7_GroupCount ==
  \A i \in 1..Len(calls) :
    (LastGateOp /\ Len(calls[i].targets) <= MAX_NUM_TARGETS) =>
      /\ ~calls[i].raised
      /\ Len(calls[i].targets) = Len(last.gate.target_qubits)
      /\ Len(calls[i].qubits) = Len(last.gate.control_qubits) + Len(calls[i].targets)
      /\ calls[i].ncontrols = Len(last.gate.control_qubits)
      /\ calls[i].nstates =
           2 ^ (calls[i].nqubits - Len(last.gate.control_qubits) - Len(calls[i].targets))
      /\ calls[i].nstates * (2 ^ (Len(last.gate.control_qubits) + Len(calls[i].targets)))
           = 2 ^ calls[i].nqubits
      /\ \A j \in 1..Len(calls[i].launches) :
           calls[i].launches[j].nstates # <<>> =>
             calls[i].launches[j].nstates = <<calls[i].nstates>>

\* the GPU engine dispatched a gate with three targets and two controls on five qubits
C7_Witness ==
  /\ self.platform = "cupy"
  /\ last.op = "apply_gate"
  /\ nqubits = 5
  /\ Len(last.gate.target_qubits) = 3
  /\ Len(last.gate.control_qubits) = 2
  /\ Len(calls) = 1
  /\ calls[1].base = "multi_qubit_base"
  /\ calls[1].nstates = 1

Max(a, b) == IF a > b THEN a ELSE b

Min(a, b) == IF a > b THEN b ELSE a

\* C8: two_qubit_base computes m1 = n - max(t1, t2) - 1 < m2 = n - min(t1, t2) - 1 and
\* swap_targets = (t1 > t2); the call for the targets in the other order passes the
\* same m1, m2 and nstates and differs only in the swap flag (GPU: in the order of
\* uk1, uk2).
C8_TwoQubitGeometry ==
  \A i \in 1..Len(calls) :
    (LastGateOp /\ calls[i].base = "two_qubit_base") =>
      LET c == calls[i]
          t1 == c.targets[1]
          t2 == c.targets[2]
          o == two_qubit_base(self, c.nqubits, t2, t1, c.op, c.gate, c.qubits)
      IN /\ c.m = <<c.nqubits - Max(t1, t2) - 1, c.nqubits - Min(t1, t2) - 1>>
         /\ c.m[1] < c.m[2]
         /\ c.nstates = 2 ^ (c.nqubits - 2 - c.ncontrols)
         /\ o.m = c.m
         /\ o.nstates = c.nstates
         /\ o.launches[1].kernel = c.launches[1].kernel
         /\ IF self.platform = "cupy"
            THEN /\ c.launches[1].tk = <<2 ^ c.m[1], 2 ^ c.m[2]>>
                 /\ c.launches[1].uk =
                      (IF t1 > t2 THEN <<2 ^ c.m[2], 2 ^ c.m[1]>> ELSE <<2 ^ c.m[1], 2 ^ c.m[2]>>)
                 /\ o.launches[1].uk = Reverse(c.launches[1].uk)
                 /\ o.launches[1] = [c.launches[1] EXCEPT !.uk = Reverse(@)]
            ELSE /\ c.swap_targets = <<t1 > t2>>
                 /\ c.launches[1].swap_targets = <<t1 > t2>>
                 /\ c.launches[1].m = c.m
                 /\ o.launches[1] = [c.launches[1] EXCEPT !.swap_targets = <<t2 > t1>>]

\* the CPU engine dispatched a controlled two-qubit gate whose first target is the
\* larger one
C8_Witness ==
  /\ self.platform = "numba"
  /\ last.op = "apply_gate"
  /\ nqubits = 4
  /\ last.gate.target_qubits = <<3, 1>>
  /\ Len(last.gate.control_qubits) = 1
  /\ calls[1].m = <<0, 2>>
  /\ calls[1].swap_targets = <<TRUE>>
  /\ calls[1].nstates = 2

\* the basis state with the single bit m set
BasisState(n, m) == [i \in 0..((2 ^ n) - 1) |-> IF i = 2 ^ m THEN C1 ELSE C0]

\* C9: apply_gate with X on target t of n qubits passes bit position m = n - t - 1 to
\* the apply_x kernel, which takes the zero state to the basis state of index
\* 2^(n - t - 1); with a control qubit (unset in the zero state) the multicontrol
\* kernel is selected and the zero state is left as it is.
C9_BitFlip ==
  (last.op = "apply_gate" /\ last.gate.name \in {"X", "CNOT", "TOFFOLI"} /\ state.tracked) =>
    /\ Len(calls) = 1
    /\ ~calls[1].raised
    /\ calls[1].op = "apply_x"
    /\ calls[1].m = <<nqubits - last.gate.target_qubits[1] - 1>>
    /\ calls[1].launches[1].m = calls[1].m
    /\ Launched(calls[1]).op = "apply_x"
    /\ Launched(calls[1]).multicontrol <=> (last.gate.control_qubits # <<>>)
    /\ (pre = zero_state(nqubits, TRUE) /\ last.gate.control_qubits = <<>>) =>
         state.data = BasisState(nqubits, nqubits - last.gate.target_qubits[1] - 1)
    /\ (pre = zero_state(nqubits, TRUE) /\ last.gate.control_qubits # <<>>) => state = pre

\* n = 2, X on qubit 0 of the zero state: [1, 0, 0, 0] became [0, 0, 1, 0]
C9_Witness ==
  /\ last.op = "apply_gate"
  /\ last.gate.name = "X"
  /\ last.gate.target_qubits = <<0>>
  /\ nqubits = 2
  /\ pre.data = [i \in 0..3 |-> IF i = 0 THEN C1 ELSE C0]
  /\ state.data = [i \in 0..3 |-> IF i = 2 THEN C1 ELSE C0]

\* C10: for a Y gate apply_gate_density_matrix makes exactly two one-qubit dispatches
\* whether inverse is set or not: the ket side with the unmodified matrix selects the
\* apply_y kernel, the bra side with the conjugated matrix selects the generic
\* apply_gate kernel; for every other gate both sides select the same operation.
C10_YGate ==
  (last.op = "apply_gate_density_matrix" /\ ~last.raised) =>
    IF last.gate.name = "Y"
    THEN /\ Len(calls) = 2
         /\ \A i \in 1..2 : calls[i].base = "one_qubit_base" /\ ~calls[i].raised
         /\ calls[1].op = "apply_y"
         /\ calls[1].gate = _as_custom_matrix(self, last.gate)
         /\ calls[1].targets = last.gate.target_qubits
         /\ Launched(calls[1]).op = "apply_y"
         /\ calls[2].op = "apply_gate"
         /\ calls[2].gate = np_conj(_as_custom_matrix(self, last.gate))
         /\ calls[2].targets = Shift(last.gate.target_qubits, nqubits)
         /\ Launched(calls[2]).op = "apply_gate"
    ELSE /\ Len(calls) = 2
         /\ calls[1].op = calls[2].op
         /\ calls[1].base = calls[2].base
         /\ Launched(calls[1]).op = Launched(calls[2]).op

\* a Y gate applied to a density matrix in inverse mode
C10_Witness ==
  /\ last.op = "apply_gate_density_matrix"
  /\ last.inverse
  /\ last.gate.name = "Y"
  /\ Len(calls) = 2
  /\ Launched(calls[1]).op = "apply_y"
  /\ Launched(calls[2]).op = "apply_gate"
  /\ calls[1].gate # calls[2].gate

============================================================================
